---- MODULE Spec2Model ----
(***************************************************************************)
(* Course recommendation app (src/app.py): a Streamlit script that loads   *)
(* a course catalog, fits a TF-IDF vectorizer and a cosine nearest-        *)
(* neighbour model over it, and serves recommend_courses from the search   *)
(* tab.                                                                    *)
(*                                                                         *)
(* Representation.  A Python string is the sequence of its whitespace-     *)
(* separated words (the empty string is << >>).  A pandas text cell is a   *)
(* record [na, v]: na marks NaN.  Scalar cells use the strings NaN / None  *)
(* for pandas' missing value and Python's None.  Ratings are tenths        *)
(* (4.5 is 45).  TF-IDF weights are fixed-point with one decimal: ln is    *)
(* read from LnTab (10 * ln k, rounded).  Cosine similarities are kept as  *)
(* exact fractions of squares, because the L2 norms are square roots.      *)
(***************************************************************************)
EXTENDS Integers, Sequences, FiniteSets, TLC

VARIABLES
    source,             \* the CSV behind csv_url (outside the program)
    tie,                \* order numpy gives to rows at equal distance
    pc,                 \* next statement of the script
    ran,                \* statements of the script executed in this run
    shown,              \* what the page shows in this run
    df,                 \* the DataFrame
    vectorizer,         \* the TfidfVectorizer
    tfidf_matrix,       \* the weighted document rows
    model,              \* the NearestNeighbors model
    user_query,         \* st.text_input value
    difficulty_filter,  \* st.sidebar.selectbox value
    min_rating_filter,  \* st.sidebar.slider value
    call,               \* the latest call of recommend_courses and its outcome
    ui_calls,           \* calls of recommend_courses by the search tab in this run
    probe               \* the first call of recommend_courses, remembered

vars == <<source, tie, pc, ran, shown, df, vectorizer, tfidf_matrix, model,
          user_query, difficulty_filter, min_rating_filter, call, ui_calls, probe>>

index == <<df, vectorizer, tfidf_matrix, model>>
widgets == <<user_query, difficulty_filter, min_rating_filter>>

-----------------------------------------------------------------------------
(* Bounds of the model *)

MaxRows == 6
MaxShift == 1

-----------------------------------------------------------------------------
(* Values *)

NaN == "<NaN>"
None == "<None>"
NaText == [na |-> TRUE, v |-> << >>]
Text(ws) == [na |-> FALSE, v |-> ws]

NotBuilt == [built |-> FALSE]
NoCall == [made |-> FALSE]

n_neighbors == 5
FallbackUrl == "https://www.coursera.org/?skipBrowseRedirect=true"
RequiredColumns == {"Title", "Organization", "Skills", "Ratings", "Difficulty",
                    "Type", "Duration", "course_url", "combined_features"}
ProjectedColumns == {"Title", "Organization", "Skills", "Ratings", "Difficulty",
                     "Type", "Duration", "course_url"}

(* The rows a catalog is drawn from; rows 1..3 are the three-item catalog  *)
(* of the spec's scenario.                                                 *)
RowPool ==
    << [combined_features |-> Text(<<"python", "programming", "basics">>),
        Difficulty |-> "Beginner", Ratings |-> 45, course_url |-> "u1"],
       [combined_features |-> Text(<<"advanced", "machine", "learning">>),
        Difficulty |-> "Advanced", Ratings |-> 48, course_url |-> "u2"],
       [combined_features |-> Text(<<"intro", "to", "python">>),
        Difficulty |-> "Beginner", Ratings |-> 39, course_url |-> NaN],
       [combined_features |-> NaText,
        Difficulty |-> "Intermediate", Ratings |-> 42, course_url |-> "u4"],
       [combined_features |-> Text(<<"Python", "DATA", "analysis">>),
        Difficulty |-> NaN, Ratings |-> 40, course_url |-> "u5"],
       [combined_features |-> Text(<<"machine", "learning", "basics">>),
        Difficulty |-> "Intermediate", Ratings |-> 47, course_url |-> NaN],
       [combined_features |-> Text(<<"The", "data", "c", "Programming">>),
        Difficulty |-> "Advanced", Ratings |-> 35, course_url |-> "u7"] >>

RowAt(i) == RowPool[((i - 1) % Len(RowPool)) + 1]

Restrict(r, cols) == [c \in (DOMAIN r) \cap cols |-> r[c]]

Catalogs ==
    { [columns |-> cols, rows |-> [i \in 1..n |-> Restrict(RowAt(i + s), cols)]] :
        n \in 0..MaxRows, s \in 0..MaxShift,
        cols \in { RequiredColumns,
                   RequiredColumns \ {"combined_features"},
                   RequiredColumns \ {"course_url"},
                   RequiredColumns \ {"Difficulty"} } }

TieOrders == {"low", "high"}

-----------------------------------------------------------------------------
(* Text: str.lower and the TfidfVectorizer analyzer *)

LowerWord(w) ==
    CASE w = "Python" -> "python"
      [] w = "DATA" -> "data"
      [] w = "The" -> "the"
      [] w = "Programming" -> "programming"
      [] OTHER -> w

lower(ws) == [i \in DOMAIN ws |-> LowerWord(ws[i])]

(* The words of sklearn's ENGLISH_STOP_WORDS that occur in the model *)
StopWords == {"to", "the", "and", "of"}

(* token_pattern (?u)\b\w\w+\b keeps words of two or more characters *)
IsToken(w) == Len(w) >= 2

Analyze(ws) == SelectSeq(lower(ws), LAMBDA w : IsToken(w) /\ w \notin StopWords)

Count(ws, t) == Cardinality({i \in DOMAIN ws : ws[i] = t})

Range(s) == {s[i] : i \in DOMAIN s}

RECURSIVE SumOver(_, _)
SumOver(S, f) ==
    IF S = {} THEN 0
    ELSE LET x == CHOOSE y \in S : TRUE
         IN f[x] + SumOver(S \ {x}, f)

-----------------------------------------------------------------------------
(* pandas column operations *)

fillnaText(col, ws) == [i \in DOMAIN col |-> IF col[i].na THEN Text(ws) ELSE col[i]]
fillnaSkipped(col, v) == col
fillna(col, v) == [i \in DOMAIN col |-> IF col[i] = NaN THEN v ELSE col[i]]
strLower(col) == [i \in DOMAIN col |-> IF col[i].na THEN col[i] ELSE Text(lower(col[i].v))]

Column(d, name) == [i \in DOMAIN d.rows |-> d.rows[i][name]]

SetColumn(d, name, col) ==
    [d EXCEPT !.rows = [i \in DOMAIN d.rows |-> [d.rows[i] EXCEPT ![name] = col[i]]]]

-----------------------------------------------------------------------------
(* TfidfVectorizer(stop_words='english'): fit_transform and transform *)

(* 10 * ln k, rounded, for k = 1, 2, ... *)
LnTab == <<0, 7, 11, 14, 16, 18, 19, 21, 22, 23, 24, 25, 26, 26, 27, 28>>

(* smooth_idf: idf = ln((1 + n) / (1 + df)) + 1 *)
Idf(n, dfreq) == LnTab[1 + n] - LnTab[1 + dfreq] + 10

Vocabulary(docs) == UNION {Range(Analyze(docs[i].v)) : i \in DOMAIN docs}

DocFreq(docs, t) == Cardinality({i \in DOMAIN docs : t \in Range(Analyze(docs[i].v))})

(* One weighted row: tf * idf per vocabulary term, with its squared L2 norm *)
Weigh(vocab, idf, ws) ==
    LET toks == Analyze(ws)
        w == [t \in vocab |-> Count(toks, t) * idf[t]]
    IN [w |-> w, n2 |-> SumOver(vocab, [t \in vocab |-> w[t] * w[t]])]

fit(docs) ==
    LET vocab == Vocabulary(docs)
    IN [built |-> TRUE, fitted |-> TRUE, vocabulary |-> vocab,
        idf |-> [t \in vocab |-> Idf(Len(docs), DocFreq(docs, t))]]

Unfitted == [built |-> TRUE, fitted |-> FALSE]

(* transform keeps the fitted vocabulary: other terms get no column *)
transform(vec, ws) == Weigh(vec.vocabulary, vec.idf, ws)

-----------------------------------------------------------------------------
(* The script, lines 11-31 *)

Init ==
    /\ source \in Catalogs
    /\ tie \in TieOrders
    /\ pc = "fetch"
    /\ ran = {}
    /\ shown = {}
    /\ df = NotBuilt
    /\ vectorizer = NotBuilt
    /\ tfidf_matrix = NotBuilt
    /\ model = NotBuilt
    /\ user_query = << >>
    /\ difficulty_filter = "All"
    /\ min_rating_filter = 40
    /\ call = NoCall
    /\ ui_calls = 0
    /\ probe = NoCall

Crash(step) ==
    /\ pc' = "crashed"
    /\ ran' = ran \cup {step}
    /\ shown' = shown \cup {"exception"}

Goto(step, next) ==
    /\ pc' = next
    /\ ran' = ran \cup {step}

(* lines 11-15: requests.get, raise_for_status, pd.read_csv *)
Fetch ==
    /\ pc = "fetch"
    /\ \E ok \in BOOLEAN :
         IF ok
         THEN /\ df' = [built |-> TRUE, columns |-> source.columns, rows |-> source.rows]
              /\ Goto("fetch", "check")
              /\ UNCHANGED shown
         ELSE /\ Crash("fetch")
              /\ UNCHANGED df
    /\ UNCHANGED <<source, tie, vectorizer, tfidf_matrix, model, widgets, call, ui_calls, probe>>

(* lines 18-21 *)
CheckColumn ==
    /\ pc = "check"
    /\ IF "combined_features" \notin df.columns
       THEN /\ shown' = shown \cup {"st.error"}
            /\ UNCHANGED df
       ELSE /\ df' = SetColumn(df, "combined_features",
                        strLower(fillnaText(Column(df, "combined_features"), << >>)))
            /\ UNCHANGED shown
    /\ Goto("check", "fillurl")
    /\ UNCHANGED <<source, tie, vectorizer, tfidf_matrix, model, widgets, call, ui_calls, probe>>

(* line 24 *)
FillUrl ==
    /\ pc = "fillurl"
    /\ IF "course_url" \notin df.columns
       THEN /\ Crash("fillurl")
            /\ UNCHANGED df
       ELSE /\ df' = SetColumn(df, "course_url", fillna(Column(df, "course_url"), FallbackUrl))
            /\ Goto("fillurl", "vectorize")
            /\ UNCHANGED shown
    /\ UNCHANGED <<source, tie, vectorizer, tfidf_matrix, model, widgets, call, ui_calls, probe>>

(* lines 27-28: the constructor, then fit_transform; df['combined_features']  *)
(* raises KeyError without the column, fit raises ValueError on an empty      *)
(* vocabulary                                                                 *)
Vectorize ==
    /\ pc = "vectorize"
    /\ IF "combined_features" \notin df.columns
       THEN /\ vectorizer' = Unfitted
            /\ Crash("vectorize")
            /\ UNCHANGED tfidf_matrix
       ELSE LET docs == Column(df, "combined_features")
                vec == fit(docs)
            IN IF vec.vocabulary = {}
               THEN /\ vectorizer' = Unfitted
                    /\ Crash("vectorize")
                    /\ UNCHANGED tfidf_matrix
               ELSE /\ vectorizer' = vec
                    /\ tfidf_matrix' = [built |-> TRUE,
                                        X |-> [i \in DOMAIN docs |-> transform(vec, docs[i].v)]]
                    /\ Goto("vectorize", "fitmodel")
                    /\ UNCHANGED shown
    /\ UNCHANGED <<source, tie, df, model, widgets, call, ui_calls, probe>>

(* line 31: fit stores the rows; it does not compare n_neighbors to them *)
FitModel ==
    /\ pc = "fitmodel"
    /\ model' = [built |-> TRUE, n_neighbors |-> n_neighbors,
                 n_samples_fit |-> Len(tfidf_matrix.X), fit_X |-> tfidf_matrix.X]
    /\ Goto("fitmodel", "ui")
    /\ UNCHANGED <<source, tie, shown, df, vectorizer, tfidf_matrix, widgets, call, ui_calls, probe>>

-----------------------------------------------------------------------------
(* NearestNeighbors(n_neighbors=5, metric='cosine'): brute-force kneighbors *)

(* a/b against c/d for b, d > 0: -1, 0 or 1, by continued fractions, so    *)
(* that no product is formed                                               *)
RECURSIVE CmpFrac(_, _, _, _)
CmpFrac(a, b, c, d) ==
    LET qa == a \div b
        qc == c \div d
        ra == a % b
        rc == c % d
    IN IF qa # qc THEN (IF qa < qc THEN -1 ELSE 1)
       ELSE IF ra = 0 /\ rc = 0 THEN 0
       ELSE IF ra = 0 THEN -1
       ELSE IF rc = 0 THEN 1
       ELSE CmpFrac(d, rc, b, ra)

Dot(u, v) == SumOver(DOMAIN u.w, [t \in DOMAIN u.w |-> u.w[t] * v.w[t]])

(* The square of the cosine similarity, as a fraction; a zero vector has   *)
(* similarity 0 with everything (distance 1)                               *)
Sim2(u, v) ==
    IF u.n2 = 0 \/ v.n2 = 0
    THEN [num |-> 0, den |-> 1]
    ELSE LET d == Dot(u, v) IN [num |-> d * d, den |-> u.n2 * v.n2]

(* The similarities of the query to rows i, i+1, ... of X *)
RECURSIVE Similarities(_, _, _)
Similarities(qv, X, i) ==
    IF i > Len(X) THEN << >>
    ELSE <<Sim2(qv, X[i])>> \o Similarities(qv, X, i + 1)

(* cosine distance = 1 - similarity, similarities are >= 0: the distance   *)
(* of row i against that of row j, as -1, 0 or 1                           *)
CmpDist(sims, i, j) == CmpFrac(sims[j].num, sims[j].den, sims[i].num, sims[i].den)

TieBefore(i, j) == IF tie = "low" THEN i < j ELSE i > j

BeforeBySimilarity(sims, i, j) ==
    LET c == CmpDist(sims, i, j)
    IN c > 0 \/ (c = 0 /\ TieBefore(i, j))

Before(sims, i, j) ==
    LET c == CmpDist(sims, i, j)
    IN c < 0 \/ (c = 0 /\ TieBefore(i, j))

(* argpartition, then argsort: the k nearest rows, nearest first *)
RECURSIVE Nearest(_, _, _)
Nearest(sims, k, rest) ==
    IF k = 0 \/ rest = {} THEN << >>
    ELSE LET best == CHOOSE i \in rest : \A j \in rest \ {i} : Before(sims, i, j)
         IN <<best>> \o Nearest(sims, k - 1, rest \ {best})

(* kneighbors raises ValueError when n_neighbors > n_samples_fit *)
kneighbors(m, qv) ==
    IF m.n_neighbors > m.n_samples_fit
    THEN [raised |-> TRUE, indices |-> << >>]
    ELSE [raised |-> FALSE,
          indices |-> Nearest(Similarities(qv, m.fit_X, 1), m.n_neighbors, DOMAIN m.fit_X)]

-----------------------------------------------------------------------------
(* recommend_courses, lines 34-45 *)

Truthy(x) == x # None /\ x # ""

(* df.iloc[indices][columns]: the row's position and its projected cells *)
Project(d, i) == [pos |-> i] @@ Restrict(d.rows[i], ProjectedColumns)

(* lines 41-42 *)
FilterDifficulty(recommendations, difficulty) ==
    IF Truthy(difficulty) /\ difficulty # "All"
    THEN SelectSeq(recommendations, LAMBDA r : r.Difficulty = difficulty)
    ELSE recommendations

FilterRatingStrict(recommendations, min_rating) ==
    SelectSeq(recommendations, LAMBDA r : r.Ratings > min_rating)

(* line 43 *)
FilterRating(recommendations, min_rating) ==
    SelectSeq(recommendations, LAMBDA r : r.Ratings >= min_rating)

(* kneighbors raises ValueError; iloc raises IndexError on a position      *)
(* outside the frame, and the column selection KeyError on a missing one   *)
recommend_courses(query, difficulty, min_rating) ==
    LET query_vector == transform(vectorizer, query)
        nn == kneighbors(model, query_vector)
        located == /\ \A k \in DOMAIN nn.indices : nn.indices[k] \in DOMAIN df.rows
                   /\ ProjectedColumns \subseteq df.columns
        recommendations == [k \in DOMAIN nn.indices |-> Project(df, nn.indices[k])]
    IN IF nn.raised \/ ~located
       THEN [raised |-> TRUE, indices |-> nn.indices, items |-> << >>]
       ELSE [raised |-> FALSE, indices |-> nn.indices,
             items |-> FilterRating(FilterDifficulty(recommendations, difficulty),
                                    min_rating)]

Called(query, difficulty, min_rating) ==
    [made |-> TRUE, query |-> query, difficulty |-> difficulty, min_rating |-> min_rating]
    @@ recommend_courses(query, difficulty, min_rating)

(* A call that filters the catalog itself instead of a copy *)
InvokeInPlace(query, difficulty, min_rating) ==
    /\ call' = Called(query, difficulty, min_rating)
    /\ df' = [df EXCEPT !.rows = SelectSeq(df.rows, LAMBDA r : r.Ratings >= min_rating)]
    /\ UNCHANGED <<vectorizer, tfidf_matrix, model>>

(* A call assigns no global: the catalog and the index stay as they are *)
Invoke(query, difficulty, min_rating) ==
    /\ call' = Called(query, difficulty, min_rating)
    /\ UNCHANGED index

-----------------------------------------------------------------------------
(* The engine called directly, with any arguments *)

Queries == { << >>, <<"python">>, <<"the">>, <<"Python", "zzz">>,
             <<"machine", "learning">>, <<"data", "data", "basics">> }
Difficulties == {None, "", "All", "Beginner", "Advanced", "beginner", "Expert"}
MinRatings == {-10, 0, 40, 48}

(* One call on the index as built *)
EngineCall ==
    /\ pc = "ui"
    /\ \E q \in Queries, d \in Difficulties, m \in MinRatings : Invoke(q, d, m)
    /\ Goto("ui", "returned")
    /\ UNCHANGED <<source, tie, shown, widgets, ui_calls, probe>>

(* Calls one after another; the first is remembered *)
RepeatQueries == { <<"python">>, <<"the">>, <<"machine", "learning">> }
RepeatDifficulties == {None, "Beginner"}
RepeatRatings == {0, 40}

SameArgs(a, b) ==
    /\ a.query = b.query
    /\ a.difficulty = b.difficulty
    /\ a.min_rating = b.min_rating

(* probe.between: another call came after the first; probe.again: the     *)
(* first call was then repeated                                            *)
Remember(c) ==
    IF ~probe.made THEN c @@ [between |-> FALSE, again |-> FALSE]
    ELSE IF SameArgs(c, probe) THEN [probe EXCEPT !.again = probe.between]
    ELSE [probe EXCEPT !.between = TRUE]

RepeatedCall ==
    /\ pc = "ui"
    /\ \E q \in RepeatQueries, d \in RepeatDifficulties, m \in RepeatRatings :
         Invoke(q, d, m)
    /\ probe' = Remember(call')
    /\ UNCHANGED <<source, tie, pc, ran, shown, widgets, ui_calls>>

-----------------------------------------------------------------------------
(* The search tab, lines 169-208, and Streamlit's reruns of the script *)

SelectboxOptions == {"All", "Beginner", "Intermediate", "Advanced"}
SliderValues == {0, 40, 50}
TextInputs == { << >>, <<"python">>, <<"the">>, <<"Python", "zzz">>,
                <<"machine", "learning">> }

HasQueryAlways(q) == TRUE

(* line 174: a str is true when it is not empty *)
HasQuery(q) == q # << >>

SearchTab ==
    /\ pc = "ui"
    /\ IF HasQuery(user_query)
       THEN LET difficulty == IF difficulty_filter = "All" THEN None ELSE difficulty_filter
            IN /\ Invoke(user_query, difficulty, min_rating_filter)
               /\ ui_calls' = ui_calls + 1
               /\ IF call'.raised
                  THEN Crash("ui")
                  ELSE /\ shown' = shown \cup
                              {IF call'.items # << >> THEN "course_list"
                                                     ELSE "no_recommendations"}
                       /\ Goto("ui", "done")
       ELSE /\ shown' = shown \cup {"prompt"}
            /\ Goto("ui", "done")
            /\ UNCHANGED <<index, call, ui_calls>>
    /\ UNCHANGED <<source, tie, widgets, probe>>

(* A rerun executes the script from the top with fresh globals *)
Restart ==
    /\ pc' = "fetch"
    /\ ran' = {}
    /\ shown' = {}
    /\ df' = NotBuilt
    /\ vectorizer' = NotBuilt
    /\ tfidf_matrix' = NotBuilt
    /\ model' = NotBuilt
    /\ call' = NoCall
    /\ ui_calls' = 0
    /\ UNCHANGED <<source, tie, probe>>

(* The user changes a widget the run has rendered *)
Interact ==
    /\ "ui" \in ran
    /\ pc \in {"done", "crashed"}
    /\ \E q \in TextInputs, d \in SelectboxOptions, r \in SliderValues :
         /\ user_query' = q
         /\ difficulty_filter' = d
         /\ min_rating_filter' = r
    /\ Restart

(* The user reloads the page: a new session with the widgets' defaults *)
Reload ==
    /\ pc \in {"done", "crashed"}
    /\ user_query' = << >>
    /\ difficulty_filter' = "All"
    /\ min_rating_filter' = 40
    /\ Restart

StartupNext == Fetch \/ CheckColumn \/ FillUrl \/ Vectorize \/ FitModel

(* The Streamlit app *)
Next == StartupNext \/ SearchTab \/ Interact \/ Reload
Spec == Init /\ [][Next]_vars

(* The engine under direct calls *)
EngineNext == StartupNext \/ EngineCall
SpecEngine == Init /\ [][EngineNext]_vars

(* The engine under sequences of calls *)
RepeatNext == StartupNext \/ RepeatedCall
SpecRepeat == Init /\ [][RepeatNext]_vars

-----------------------------------------------------------------------------
(* Properties *)

Returned == call.made /\ ~call.raised

Positions == [k \in DOMAIN call.items |-> call.items[k].pos]

CallSims == Similarities(transform(vectorizer, call.query), model.fit_X, 1)

(* C1: for a non-empty query, any difficulty and any min_rating, what       *)
(* recommend_courses returns has at most 5 items, each a distinct row       *)
(* position of the loaded catalog, in order of non-decreasing cosine        *)
(* distance from the query.                                                 *)
C1_CapDistinctOrdered ==
    (Returned /\ call.query # << >>) =>
        /\ Len(call.items) <= 5
        /\ \A k \in DOMAIN Positions : Positions[k] \in DOMAIN source.rows
        /\ \A k, l \in DOMAIN Positions : k # l => Positions[k] # Positions[l]
        /\ \A k \in DOMAIN Positions :
             k < Len(Positions) => CmpDist(CallSims, Positions[k], Positions[k + 1]) <= 0

C1_Witness ==
    /\ Returned
    /\ call.query # << >>
    /\ Len(call.items) = 5
    /\ \E k \in 1..4 : CmpDist(CallSims, Positions[k], Positions[k + 1]) < 0
    /\ \E k \in 1..4 : CmpDist(CallSims, Positions[k], Positions[k + 1]) = 0

(* Whether candidate row c passes both filters; an absent difficulty is     *)
(* None or the empty string                                                 *)
Passes(c, difficulty, min_rating) ==
    /\ difficulty \in {None, "", "All"} \/ c.Difficulty = difficulty
    /\ c.Ratings >= min_rating

(* The k-th smallest element of a set of numbers *)
Nth(S, k) == CHOOSE x \in S : Cardinality({y \in S : y <= x}) = k

(* C2: the output is exactly the subsequence of the candidate list, in      *)
(* candidate order, of the candidates that pass the difficulty condition    *)
(* and have Ratings >= min_rating: none of them is dropped, nothing else    *)
(* is added.                                                                *)
C2_FilterIsSubsequence ==
    Returned =>
        LET kept == {k \in DOMAIN call.indices :
                        Passes(df.rows[call.indices[k]], call.difficulty, call.min_rating)}
        IN /\ Len(call.items) = Cardinality(kept)
           /\ \A j \in DOMAIN call.items :
                /\ call.items[j].pos = call.indices[Nth(kept, j)]
                /\ call.items[j] = Project(df, call.items[j].pos)

C2_Witness ==
    /\ Returned
    /\ Len(call.indices) = 5
    /\ call.items # << >>
    /\ call.difficulty = "Advanced"
    /\ \E j \in DOMAIN call.items : call.items[j].Ratings = call.min_rating
    /\ \E k \in DOMAIN call.indices :
         /\ df.rows[call.indices[k]].Difficulty = "Advanced"
         /\ df.rows[call.indices[k]].Ratings < call.min_rating
    /\ \E k \in DOMAIN call.indices : df.rows[call.indices[k]].Difficulty # "Advanced"

ScenarioCatalog ==
    /\ source.columns = RequiredColumns
    /\ source.rows = [i \in 1..3 |-> RowAt(i)]

(* C3: on the three-item catalog, "python" with min_rating 4.0 and no       *)
(* difficulty returns item 1 only, and "python" with difficulty Advanced    *)
(* returns nothing.                                                         *)
C3_Scenario ==
    (ScenarioCatalog /\ call.made /\ call.query = <<"python">>) =>
        /\ (call.difficulty = None /\ call.min_rating = 40) =>
               (~call.raised /\ Range(Positions) = {1})
        /\ call.difficulty = "Advanced" => (~call.raised /\ call.items = << >>)

(* C4: with fewer than 5 items in the catalog, building the index and       *)
(* calling recommend_courses raise nothing, and the call yields at most as  *)
(* many items as the catalog holds.                                         *)
C4_SmallCatalog ==
    (call.made /\ source.columns = RequiredColumns /\ Len(source.rows) < 5) =>
        /\ ~call.raised
        /\ Len(call.items) <= Len(source.rows)

(* C5: when the loaded catalog lacks a required column (combined_features), *)
(* initialization stops with a diagnostic at the check: no later step of    *)
(* the startup runs, no vectorizer, matrix or neighbour model is built, no  *)
(* call is served.                                                          *)
C5_AbortOnMissingColumn ==
    ("check" \in ran /\ "combined_features" \notin df.columns) =>
        /\ "st.error" \in shown
        /\ ran \cap {"fillurl", "vectorize", "fitmodel", "ui"} = {}
        /\ ~vectorizer.built /\ ~tfidf_matrix.built /\ ~model.built
        /\ ~call.made

(* C6: a call leaves the catalog, the vectorizer, the matrix and the model  *)
(* as they were, and a call repeated after any calls returns what the       *)
(* first call with those arguments returned.                                *)
C6_CallIsPure ==
    [][pc = "ui" =>
          /\ df' = df
          /\ vectorizer' = vectorizer
          /\ tfidf_matrix' = tfidf_matrix
          /\ model' = model
          /\ (probe.made /\ SameArgs(call', probe)) =>
                (call'.raised = probe.raised /\ call'.items = probe.items)]_vars

C6_Witness ==
    /\ probe.made /\ probe.between /\ probe.again
    /\ SameArgs(call, probe)
    /\ ~call.raised
    /\ Len(call.items) >= 2
    /\ call.items = probe.items

(* Words whose term is outside the fitted vocabulary *)
ExtraWords == {"zzz", "the", "c", "quantum"}
Unseen(t) == Range(Analyze(<<t>>)) \cap vectorizer.vocabulary = {}

(* C7: for every query q and every term t outside the fitted vocabulary,    *)
(* the call on q extended with t raises nothing and returns the same        *)
(* ordered result as the call on q.                                         *)
C7_UnseenTermsIgnored ==
    (call.made /\ source.columns = RequiredColumns) =>
        \A t \in ExtraWords :
            Unseen(t) =>
                LET r == recommend_courses(Append(call.query, t), call.difficulty,
                                           call.min_rating)
                IN ~r.raised /\ ~call.raised /\ r.items = call.items

(* C7 where the call on q returns: the extended call returns the same *)
C7_WhenReturned ==
    Returned =>
        \A t \in ExtraWords :
            Unseen(t) =>
                LET r == recommend_courses(Append(call.query, t), call.difficulty,
                                           call.min_rating)
                IN ~r.raised /\ r.items = call.items

EnumeratedDifficulties == {"Beginner", "Intermediate", "Advanced"}

(* C8: invalid filter inputs never raise; a negative min_rating removes no  *)
(* candidate that passes the difficulty filter; a difficulty outside the    *)
(* enumerated set (and not absent or "All") gives the empty sequence.       *)
C8_InvalidFilters ==
    (call.made /\ source.columns = RequiredColumns) =>
        /\ (call.min_rating < 0 \/ call.difficulty \notin EnumeratedDifficulties) =>
               ~call.raised
        /\ call.min_rating < 0 =>
               call.items = FilterDifficulty(
                                [k \in DOMAIN call.indices |-> Project(df, call.indices[k])],
                                call.difficulty)
        /\ call.difficulty \notin EnumeratedDifficulties \cup {None, "", "All"} =>
               call.items = << >>

(* C8 where the call returns *)
C8_WhenReturned ==
    Returned =>
        /\ call.min_rating < 0 =>
               call.items = FilterDifficulty(
                                [k \in DOMAIN call.indices |-> Project(df, call.indices[k])],
                                call.difficulty)
        /\ call.difficulty \notin EnumeratedDifficulties \cup {None, "", "All"} =>
               call.items = << >>

Loaded ==
    /\ {"check", "fillurl"} \subseteq ran
    /\ {"combined_features", "course_url"} \subseteq df.columns

Mapped(d) == IF d = "All" THEN None ELSE d

Outcomes == {"course_list", "no_recommendations"}

SearchTabRan == "ui" \in ran

ZeroVector(q) == transform(vectorizer, q).n2 = 0

====
